---- MODULE Spec2Model ----
(***************************************************************************)
(* Held-Karp TSP solver (tsp_solver.py) and the Flask request handler      *)
(* that drives it (app.py, google_distance.py).                            *)
(*                                                                         *)
(* Costs are non-negative integers or Inf (float('inf')).  Node indices    *)
(* and bit masks are the integers of the source; a Python list xs is the   *)
(* sequence with xs[i] at position i + 1.                                  *)
(***************************************************************************)
EXTENDS Integers, Sequences, FiniteSets, TLC

VARIABLES
    pc,        \* where solve_tsp_held_karp is: "idle", "running", "finish", "done"
    dm,        \* distance_matrix of the current solve call
    memo,      \* the lru_cache of visit: <<pos, mask>> -> [cost, tail]
    stack,     \* active visit frames, innermost last
    ret,       \* the value visit(0, 1) returned to line 38
    outcome,   \* what the solve call gave its caller (a return or an exception)
    evals,     \* how many times the body of visit ran for each <<pos, mask>>
    hits,      \* how many requests the cache answered during the current call
    rel,       \* the current call's matrix against the previous call's, "first" if none
    hpc,       \* where index() is
    coords,    \* index(): the parsed coordinate list
    dist,      \* index(): the matrix build_distance_matrix returned
    response   \* index(): what the request was answered with

solver == <<pc, dm, memo, stack, ret, outcome, evals, hits, rel>>
handler == <<hpc, coords, dist, response>>
vars == <<pc, dm, memo, stack, ret, outcome, evals, hits, rel, hpc, coords, dist, response>>

----------------------------------------------------------------------------
(* Bounds of the model *)

MaxCost == 2      \* finite matrix entries of the enumerated matrices are 0..MaxCost
MaxFields == 2    \* lat[] / lon[] lists of the enumerated forms have at most this many fields

----------------------------------------------------------------------------
(* Values *)

Inf == -1                      \* float('inf')
None == <<-1>>                 \* Python None where a path tuple is expected

Pow2(k) == 2 ^ k               \* 1 << k

\* the edge cost left out of the total
AddNoEdge(a, b) == IF a = Inf \/ b = Inf THEN Inf ELSE b

\* edge + sub_cost on floats with infinity
Add(a, b) == IF a = Inf \/ b = Inf THEN Inf ELSE a + b

\* infinity compared as if it were below itself
LessSentinel(a, b) == IF b = Inf THEN TRUE ELSE IF a = Inf THEN FALSE ELSE a < b

\* a < b on floats with infinity
Less(a, b) == IF a = Inf THEN FALSE ELSE IF b = Inf THEN TRUE ELSE a < b

ALL_VISITED(n) == Pow2(n) - 1

\* mask & (1 << nxt)
Visited(mask, nxt) == (mask \div Pow2(nxt)) % 2 = 1

\* mask | (1 << nxt)
SetBit(mask, nxt) == IF Visited(mask, nxt) THEN mask ELSE mask + Pow2(nxt)

NoOutcome == [kind |-> "none", cost |-> 0, order |-> <<>>, line |-> 0]
Returned(c, o) == [kind |-> "return", cost |-> c, order |-> o, line |-> 40]
Raised(k, l) == [kind |-> k, cost |-> 0, order |-> <<>>, line |-> l]

NoResult == [cost |-> 0, tail |-> <<>>]

EmptyCache == [k \in {} |-> NoResult]

\* one cache kept for the whole process
KeptCache == memo

\* @lru_cache(None) applied to the closure visit defined by this call
NewCache == EmptyCache

\* no request is ever answered from the cache
NeverHit(key) == FALSE

\* the cache lookup of the lru_cache wrapper
CacheHit(key) == key \in DOMAIN memo

\* a new activation of visit's body: best_cost = inf, best_tail = None, nxt at 0
Frame(pos, mask) ==
    [pos |-> pos, mask |-> mask, nxt |-> 0, best_cost |-> Inf, best_tail |-> None]

\* bookkeeping: one more run of visit's body for key
Bump(key) ==
    IF key \in DOMAIN evals
    THEN [evals EXCEPT ![key] = @ + 1]
    ELSE evals @@ (key :> 1)

----------------------------------------------------------------------------
(* Matrices handed to the solver directly *)

Vals == (0 .. MaxCost) \cup {Inf}

OffDiag(n) == {p \in (1 .. n) \X (1 .. n) : p[1] # p[2]}

\* every n x n matrix with zero diagonal and off-diagonal entries in Vals
ZeroDiagMatrices(n) ==
    {[i \in 1 .. n |-> [j \in 1 .. n |-> IF i = j THEN 0 ELSE f[<<i, j>>]]] :
        f \in [OffDiag(n) -> Vals]}

\* every symmetric n x n matrix with zero diagonal and finite positive costs
SymmetricMatrices(n) ==
    {[i \in 1 .. n |-> [j \in 1 .. n |->
            IF i = j THEN 0 ELSE IF i < j THEN f[<<i, j>>] ELSE f[<<j, i>>]]] :
        f \in [{p \in OffDiag(n) : p[1] < p[2]} -> 1 .. MaxCost]}

Scenario == << <<0, 10, 15, 20>>, <<10, 0, 35, 25>>, <<15, 35, 0, 30>>, <<20, 25, 30, 0>> >>

FourByFour ==
    { Scenario,
      << <<0, 1, 1, 1>>, <<1, 0, 1, 1>>, <<1, 1, 0, 1>>, <<1, 1, 1, 0>> >>,
      << <<0, 2, 1, 2>>, <<1, 0, 2, 1>>, <<2, 1, 0, 1>>, <<1, 2, 2, 0>> >>,
      << <<0, 1, Inf, 2>>, <<Inf, 0, 1, Inf>>, <<2, Inf, 0, 1>>, <<1, 2, Inf, 0>> >>,
      << <<0, 1, 1, Inf>>, <<Inf, 0, 1, Inf>>, <<Inf, 1, 0, 1>>, <<1, Inf, Inf, 0>> >>,
      << <<0, 1, 1, Inf>>, <<1, 0, 1, Inf>>, <<1, 1, 0, Inf>>, <<1, 1, 1, 0>> >>,
      << <<0, 1, 1, 1>>, <<1, 0, 1, 1>>, <<1, 1, 0, 1>>, <<Inf, Inf, Inf, 0>> >>,
      << <<0, Inf, Inf, 1>>, <<1, 0, Inf, Inf>>, <<Inf, 1, 0, Inf>>, <<Inf, Inf, Inf, 0>> >> }

NonZeroDiag ==
    { << <<1>> >>, << <<2>> >>, << <<Inf>> >>,
      << <<1, 2>>, <<2, 1>> >>,
      << <<2, 1, 1>>, <<1, 0, 1>>, <<1, 1, 1>> >> }

Ragged ==
    { << <<>> >>,
      << <<0, 1>>, <<1>> >>,
      << <<0>>, <<1, 0>> >>,
      << <<0, 1>>, <<>> >>,
      << <<0, 1, 2>>, <<1, 0, 2>> >>,
      << <<0, 1, 2>> >>,
      << <<0, 1>>, <<1, 0>>, <<1, 1>> >>,
      << <<0, 1, 1>>, <<1, 0>>, <<1, 1, 0>> >>,
      << <<0, 1, 1, 5>>, <<1, 0, 1>>, <<1, 1, 0>> >> }

\* what the first solve call of a run may be given
Matrices ==
    UNION {ZeroDiagMatrices(n) : n \in {0, 1, 2, 3}}
        \cup SymmetricMatrices(4)
        \cup FourByFour \cup NonZeroDiag \cup Ragged

\* what a later solve call of the same run may be given
Again ==
    UNION {ZeroDiagMatrices(n) : n \in {0, 1}}
        \cup { << <<0, 1>>, <<2, 0>> >>, << <<0, 2>>, <<1, 0>> >>, << <<0, Inf>>, <<1, 0>> >>,
               << <<0, 1, 2>>, <<2, 0, 1>>, <<1, 2, 0>> >>,
               << <<0, 2, 1>>, <<1, 0, 2>>, <<2, 1, 0>> >> }
        \cup FourByFour \cup NonZeroDiag \cup Ragged

----------------------------------------------------------------------------
(* solve_tsp_held_karp, one step at a time *)

\* an exception leaves solve_tsp_held_karp: every frame is unwound
Throw(kind, line, cache) ==
    /\ pc' = "done"
    /\ outcome' = Raised(kind, line)
    /\ stack' = <<>>
    /\ memo' = cache
    /\ UNCHANGED <<dm, ret, evals, hits, rel>>

\* total <= best_cost
ImprovesOrTies(total, best_cost) == ~Less(best_cost, total)

\* total < best_cost
Improves(total, best_cost) == Less(total, best_cost)

\* lines 31-35 in the frame f that asked for sub = visit(nxt, mask | (1 << nxt))
Accumulate(f, sub) ==
    LET edge == dm[f.pos + 1][f.nxt + 1]
        total == Add(edge, sub.cost)
    IN  IF Improves(total, f.best_cost)
        THEN [f EXCEPT !.best_cost = total,
                       !.best_tail = <<f.nxt>> \o sub.tail,
                       !.nxt = @ + 1]
        ELSE [f EXCEPT !.nxt = @ + 1]

\* (nxt,) + sub_tail of line 35 raises TypeError when sub_tail is None
ConcatFails(f, sub) ==
    /\ Improves(Add(dm[f.pos + 1][f.nxt + 1], sub.cost), f.best_cost)
    /\ sub.tail = None

\* visit returns res from the innermost frame: the wrapper caches it and the
\* caller (line 31 of the frame below, or line 38) goes on with it
Return(res) ==
    LET f == stack[Len(stack)]
        key == <<f.pos, f.mask>>
        rest == SubSeq(stack, 1, Len(stack) - 1)
        cache == (key :> res) @@ memo
    IN  IF rest = <<>>
        THEN /\ memo' = cache
             /\ ret' = res
             /\ pc' = "finish"
             /\ stack' = <<>>
             /\ UNCHANGED <<dm, outcome, evals, hits, rel>>
        ELSE LET g == rest[Len(rest)]
             IN  IF ConcatFails(g, res)
                 THEN Throw("TypeError", 35, cache)
                 ELSE /\ memo' = cache
                      /\ stack' = [rest EXCEPT ![Len(rest)] = Accumulate(g, res)]
                      /\ UNCHANGED <<pc, dm, ret, outcome, evals, hits, rel>>

\* bookkeeping: how the matrix of a new call stands to the matrix of the call before it
Against(m) ==
    IF pc = "idle" THEN "first"
    ELSE IF m = dm THEN "same"
    ELSE IF Len(m) = Len(dm) THEN "same size"
    ELSE "other size"

\* lines 8-16 and the call of line 38
Enter(m) ==
    /\ dm' = m
    /\ ret' = NoResult
    /\ hits' = 0
    /\ rel' = Against(m)
    /\ IF Len(m) = 0
       THEN /\ pc' = "done"
            /\ outcome' = Returned(0, <<>>)
            /\ stack' = <<>>
            /\ evals' = EmptyCache
            /\ UNCHANGED memo
       ELSE /\ pc' = "running"
            /\ outcome' = NoOutcome
            /\ memo' = NewCache
            /\ stack' = <<Frame(0, 1)>>
            /\ evals' = (<<0, 1>> :> 1)

\* lines 18-20
VisitBase ==
    /\ pc = "running"
    /\ stack # <<>>
    /\ LET f == stack[Len(stack)]
       IN  /\ f.mask = ALL_VISITED(Len(dm))
           /\ IF Len(dm[f.pos + 1]) < 1
              THEN Throw("IndexError", 20, memo)
              ELSE Return([cost |-> dm[f.pos + 1][1], tail |-> <<0>>])
    /\ UNCHANGED handler

\* lines 25-27
LoopSkipVisited ==
    /\ pc = "running"
    /\ stack # <<>>
    /\ LET f == stack[Len(stack)]
       IN  /\ f.mask # ALL_VISITED(Len(dm))
           /\ f.nxt < Len(dm)
           /\ Visited(f.mask, f.nxt)
           /\ stack' = [stack EXCEPT ![Len(stack)].nxt = @ + 1]
    /\ UNCHANGED <<pc, dm, memo, ret, outcome, evals, hits, rel>>
    /\ UNCHANGED handler

\* lines 28-35 for one nxt that is not yet visited
LoopEdge ==
    /\ pc = "running"
    /\ stack # <<>>
    /\ LET f == stack[Len(stack)]
           key == <<f.nxt, SetBit(f.mask, f.nxt)>>
       IN  /\ f.mask # ALL_VISITED(Len(dm))
           /\ f.nxt < Len(dm)
           /\ ~Visited(f.mask, f.nxt)
           /\ IF f.nxt + 1 > Len(dm[f.pos + 1])
              THEN Throw("IndexError", 28, memo)
              ELSE IF dm[f.pos + 1][f.nxt + 1] = Inf
              THEN /\ stack' = [stack EXCEPT ![Len(stack)].nxt = @ + 1]
                   /\ UNCHANGED <<pc, dm, memo, ret, outcome, evals, hits, rel>>
              ELSE IF CacheHit(key)
              THEN IF ConcatFails(f, memo[key])
                   THEN Throw("TypeError", 35, memo)
                   ELSE /\ stack' = [stack EXCEPT ![Len(stack)] = Accumulate(f, memo[key])]
                        /\ hits' = hits + 1
                        /\ UNCHANGED <<pc, dm, memo, ret, outcome, evals, rel>>
              ELSE /\ stack' = Append(stack, Frame(key[1], key[2]))
                   /\ evals' = Bump(key)
                   /\ UNCHANGED <<pc, dm, memo, ret, outcome, hits, rel>>
    /\ UNCHANGED handler

\* line 36, reached when the loop of line 25 is exhausted
VisitReturn ==
    /\ pc = "running"
    /\ stack # <<>>
    /\ LET f == stack[Len(stack)]
       IN  /\ f.mask # ALL_VISITED(Len(dm))
           /\ f.nxt >= Len(dm)
           /\ Return([cost |-> f.best_cost, tail |-> f.best_tail])
    /\ UNCHANGED handler

\* the start node left out of the path
PathNoStart(tail) == tail

\* path = (0,) + tail
Path(tail) == <<0>> \o tail

\* lines 38-40
Finish ==
    /\ pc = "finish"
    /\ pc' = "done"
    /\ outcome' = IF ret.tail = None
                  THEN Raised("TypeError", 39)
                  ELSE Returned(ret.cost, Path(ret.tail))
    /\ UNCHANGED <<dm, memo, stack, ret, evals, hits, rel>>
    /\ UNCHANGED handler

\* the first call of a run, made on the solver directly
Solve ==
    /\ pc = "idle"
    /\ hpc = "idle"
    /\ \E m \in Matrices : Enter(m)
    /\ UNCHANGED handler

\* a later call of the same run
SolveAgain ==
    /\ pc = "done"
    /\ hpc = "idle"
    /\ \E m \in Again : Enter(m)
    /\ UNCHANGED handler

----------------------------------------------------------------------------
(* app.py: parse_coordinates *)

MAX_POINTS == 20

LatFields == {" ", "abc", "-90", "91"}
LonFields == {"", "180", "-181"}

\* s.strip()
Strip(s) == IF s = " " THEN "" ELSE s

\* whether float(s) succeeds
Numeric(s) == s \in {"-90", "91", "180", "-181"}

\* float(s)
Float(s) ==
    CASE s = "-90" -> -90
      [] s = "91" -> 91
      [] s = "180" -> 180
      [] s = "-181" -> -181

SeqsUpTo(S, k) == UNION {[1 .. l -> S] : l \in 0 .. k}

\* a form of k valid pairs
ValidForm(k) == [lats |-> [i \in 1 .. k |-> "-90"], lons |-> [i \in 1 .. k |-> "180"]]

Forms ==
    {[lats |-> la, lons |-> lo] :
        la \in SeqsUpTo(LatFields, MaxFields), lo \in SeqsUpTo(LonFields, MaxFields)}
        \cup {ValidForm(3), ValidForm(MAX_POINTS + 1)}

Parsed(cs) == [ok |-> TRUE, coords |-> cs, msg |-> ""]
ValueError(msg) == [ok |-> FALSE, coords |-> <<>>, msg |-> msg]

\* lines 39-43
CheckCount(cs) ==
    IF Len(cs) < 2 THEN ValueError("Please enter at least 2 valid coordinate pairs.")
    ELSE IF Len(cs) > MAX_POINTS THEN ValueError("Please limit to 20 points.")
    ELSE Parsed(cs)

RECURSIVE ParseFrom(_, _, _)
\* lines 28-38 from the i-th pair of zip(lats, lons) on, cs parsed so far
ParseFrom(form, i, cs) ==
    IF i > Len(form.lats) \/ i > Len(form.lons) THEN CheckCount(cs)
    ELSE LET lat_str == form.lats[i]
             lon_str == form.lons[i]
         IN  IF Strip(lat_str) = "" \/ Strip(lon_str) = ""
             THEN ParseFrom(form, i + 1, cs)
             ELSE IF ~Numeric(lat_str) \/ ~Numeric(lon_str)
             THEN ValueError("Latitude/Longitude must be numeric.")
             ELSE IF ~(-90 <= Float(lat_str) /\ Float(lat_str) <= 90
                       /\ -180 <= Float(lon_str) /\ Float(lon_str) <= 180)
             THEN ValueError("Latitude must be [-90,90], Longitude must be [-180,180].")
             ELSE ParseFrom(form, i + 1, Append(cs, <<Float(lat_str), Float(lon_str)>>))

parse_coordinates(form) == ParseFrom(form, 1, <<>>)

----------------------------------------------------------------------------
(* google_distance.py: build_distance_matrix *)

Absent == -2                   \* row.get("distanceMeters") is None

Meters == {1000 * k : k \in 0 .. MaxCost}

\* the rows the Routes API may answer with for n origins: one row for each
\* pair, distanceMeters a whole number of kilometres or left out
ApiData(n) ==
    {d \in [(1 .. n) \X (1 .. n) -> Meters \cup {Absent}] :
        \A i \in 1 .. n : d[<<i, i>>] \in {0, Absent}}

\* lines 37-51
build_distance_matrix(n, data) ==
    [i \in 1 .. n |->
        [j \in 1 .. n |->
            IF i = j THEN 0
            ELSE IF data[<<i, j>>] = Absent THEN Inf
            ELSE data[<<i, j>>] \div 1000]]

----------------------------------------------------------------------------
(* app.py: index *)

NoResponse == [page |-> "none", flash |-> "", total_km |-> 0, order |-> <<>>, legs |-> <<>>]
Redirect(msg) == [NoResponse EXCEPT !.page = "redirect", !.flash = msg]
ServerError(exc) == [NoResponse EXCEPT !.page = "500", !.flash = exc]

\* only the row of the start node is scanned
HasUnreachableFirstRow(d) ==
    \E j \in 1 .. Len(d) : d[1][j] = Inf

\* lines 109-113: some dist[i][j] is float('inf')
HasUnreachable(d) ==
    \E i \in 1 .. Len(d) : \E j \in 1 .. Len(d) : d[i][j] = Inf

\* line 156
Get ==
    /\ hpc = "idle"
    /\ pc = "idle"
    /\ hpc' = "responded"
    /\ response' = [NoResponse EXCEPT !.page = "index.html"]
    /\ UNCHANGED <<coords, dist>>
    /\ UNCHANGED solver

\* lines 98-103
Post ==
    /\ hpc = "idle"
    /\ pc = "idle"
    /\ \E form \in Forms :
        LET p == parse_coordinates(form)
        IN  IF p.ok
            THEN /\ hpc' = "parsed"
                 /\ coords' = p.coords
                 /\ UNCHANGED <<dist, response>>
            ELSE /\ hpc' = "responded"
                 /\ response' = Redirect(p.msg)
                 /\ UNCHANGED <<coords, dist>>
    /\ UNCHANGED solver

\* line 106; resp.raise_for_status() raises when the API answers with an error
Build ==
    /\ hpc = "parsed"
    /\ \/ /\ hpc' = "responded"
          /\ response' = ServerError("HTTPError")
          /\ UNCHANGED <<coords, dist>>
       \/ \E data \in ApiData(Len(coords)) :
            /\ hpc' = "built"
            /\ dist' = build_distance_matrix(Len(coords), data)
            /\ UNCHANGED <<coords, response>>
    /\ UNCHANGED solver

\* lines 109-116
CheckAndSolve ==
    /\ hpc = "built"
    /\ IF HasUnreachable(dist)
       THEN /\ hpc' = "responded"
            /\ response' =
                 Redirect("Some locations are unreachable by road. Please adjust your inputs.")
            /\ UNCHANGED <<coords, dist>>
            /\ UNCHANGED solver
       ELSE /\ hpc' = "solving"
            /\ Enter(dist)
            /\ UNCHANGED <<coords, dist, response>>

\* lines 118-154, or the exception of the solver leaving index()
Render ==
    /\ hpc = "solving"
    /\ pc = "done"
    /\ hpc' = "responded"
    /\ response' =
         IF outcome.kind = "return"
         THEN [page |-> "results.html", flash |-> "",
               total_km |-> outcome.cost,
               order |-> outcome.order,
               legs |-> [i \in 1 .. Len(outcome.order) - 1 |->
                           dist[outcome.order[i] + 1][outcome.order[i + 1] + 1]]]
         ELSE ServerError(outcome.kind)
    /\ UNCHANGED <<coords, dist>>
    /\ UNCHANGED solver

----------------------------------------------------------------------------

Init ==
    /\ pc = "idle"
    /\ dm = <<>>
    /\ memo = EmptyCache
    /\ stack = <<>>
    /\ ret = NoResult
    /\ outcome = NoOutcome
    /\ evals = EmptyCache
    /\ hits = 0
    /\ rel = "first"
    /\ hpc = "idle"
    /\ coords = <<>>
    /\ dist = <<>>
    /\ response = NoResponse

\* the response is sent and the request's objects are dropped
Sent ==
    /\ hpc = "responded"
    /\ pc' = "idle"
    /\ dm' = <<>>
    /\ memo' = EmptyCache
    /\ stack' = <<>>
    /\ ret' = NoResult
    /\ outcome' = NoOutcome
    /\ evals' = EmptyCache
    /\ hits' = 0
    /\ rel' = "first"
    /\ hpc' = "idle"
    /\ coords' = <<>>
    /\ dist' = <<>>
    /\ response' = NoResponse

Next ==
    \/ Solve
    \/ SolveAgain
    \/ VisitBase
    \/ LoopSkipVisited
    \/ LoopEdge
    \/ VisitReturn
    \/ Finish
    \/ Get
    \/ Post
    \/ Build
    \/ CheckAndSolve
    \/ Render
    \/ Sent

Spec == Init /\ [][Next]_vars

----------------------------------------------------------------------------
(* Vocabulary of the properties *)

N == Len(dm)

Square(m) == \A i \in 1 .. Len(m) : Len(m[i]) = Len(m)

AllFinite(m) == \A i \in 1 .. Len(m) : \A j \in 1 .. Len(m[i]) : m[i][j] # Inf

ZeroDiag(m) == \A i \in 1 .. Len(m) : m[i][i] = 0

\* square, zero diagonal, every entry a non-negative cost or the unreachable sentinel
WellFormed(m) ==
    /\ Square(m)
    /\ ZeroDiag(m)
    /\ \A i \in 1 .. Len(m) : \A j \in 1 .. Len(m) : m[i][j] = Inf \/ m[i][j] >= 0

RECURSIVE Orderings(_)
\* every ordering of the nodes of S
Orderings(S) ==
    IF S = {} THEN {<<>>}
    ELSE UNION {{<<x>> \o o : o \in Orderings(S \ {x})} : x \in S}

\* the closed tours 0 -> ordering of 1..n-1 -> 0
Tours(n) == {<<0>> \o o \o <<0>> : o \in Orderings(1 .. n - 1)}

RECURSIVE CostFrom(_, _, _)
\* the sum of m[t[i]][t[i+1]] over the consecutive pairs of t from position i on
CostFrom(m, t, i) ==
    IF i >= Len(t) THEN 0
    ELSE LET e == m[t[i] + 1][t[i + 1] + 1]
             r == CostFrom(m, t, i + 1)
         IN  IF e = Inf \/ r = Inf THEN Inf ELSE e + r

TourCost(m, t) == CostFrom(m, t, 1)

\* a <= b where Inf is above every number
Leq(a, b) == b = Inf \/ (a # Inf /\ a <= b)

\* t is a tour of least cost
Cheapest(m, t) == \A u \in Tours(Len(m)) : Leq(TourCost(m, t), TourCost(m, u))

RECURSIVE LexLeq(_, _)
\* s is lexicographically no greater than t (same length)
LexLeq(s, t) ==
    IF s = <<>> THEN TRUE
    ELSE IF s[1] # t[1] THEN s[1] < t[1]
    ELSE LexLeq(Tail(s), Tail(t))

\* the cached results of the successors of a non-final state that line 31 asks for
Child(mask, nxt) == <<nxt, SetBit(mask, nxt)>>

Candidates(pos, mask) ==
    {nxt \in 0 .. N - 1 : ~Visited(mask, nxt) /\ dm[pos + 1][nxt + 1] # Inf}

\* cost[pos][nxt] + remaining cost, for a candidate whose result is cached
Total(pos, mask, nxt) == Add(dm[pos + 1][nxt + 1], memo[Child(mask, nxt)].cost)

NonFinal(key) == key[2] # ALL_VISITED(N)

Done == pc = "done"

----------------------------------------------------------------------------
(* C1: on a square matrix with finite non-negative entries and zero diagonal
   the returned cost is the least cost of a closed tour 0 -> ordering -> 0
   over all orderings of the other nodes; the scenario matrix gives cost 80
   with order [0,1,3,2,0] or its reverse. *)
C1_OptimalCost ==
    (Done /\ N >= 1 /\ WellFormed(dm) /\ AllFinite(dm)) =>
        /\ outcome.kind = "return"
        /\ \E t \in Tours(N) : TourCost(dm, t) = outcome.cost /\ Cheapest(dm, t)
        /\ dm = Scenario =>
            /\ outcome.cost = 80
            /\ outcome.order \in {<<0, 1, 3, 2, 0>>, <<0, 2, 3, 1, 0>>}

C1_Witness ==
    Done /\ dm = Scenario /\ outcome.kind = "return" /\ outcome.cost = 80

(* C2: on a square matrix with finite entries the returned order has length
   n+1, starts and ends with node 0, holds each node of 0..n-1 exactly once
   in its first n positions, and the returned cost is the sum of
   cost[order[i]][order[i+1]] over its consecutive pairs. *)
C2_OrderIsTour ==
    (Done /\ N >= 1 /\ Square(dm) /\ AllFinite(dm)) =>
        /\ outcome.kind = "return"
        /\ Len(outcome.order) = N + 1
        /\ outcome.order[1] = 0
        /\ outcome.order[N + 1] = 0
        /\ \A v \in 0 .. N - 1 :
             Cardinality({i \in 1 .. N : outcome.order[i] = v}) = 1
        /\ outcome.cost = TourCost(dm, outcome.order)

C2_Witness ==
    /\ Done /\ N = 3 /\ Square(dm) /\ AllFinite(dm)
    /\ outcome.kind = "return" /\ outcome.order = <<0, 2, 1, 0>> /\ outcome.cost = 3

(* C3: a well-formed matrix with n >= 2 that admits no Hamiltonian cycle over
   finite edges ends the solve call in an Infeasible outcome: no unrelated
   error, no tour, no infinite cost. *)
NoFiniteTour(m) == \A t \in Tours(Len(m)) : TourCost(m, t) = Inf

C3_InfeasibleReported ==
    (Done /\ N >= 2 /\ WellFormed(dm) /\ NoFiniteTour(dm)) =>
        outcome.kind = "Infeasible"

(* C4: a matrix that is not square is rejected with MalformedMatrix before any
   DP state is evaluated. *)
C4_MalformedRejected ==
    (Done /\ ~Square(dm)) =>
        /\ outcome.kind = "MalformedMatrix"
        /\ DOMAIN evals = {}

(* C5: the empty matrix returns (0.0, []) without evaluating a DP state, and
   every 1 x 1 matrix returns cost 0.0 and order [0, 0] whatever its
   diagonal entry holds. *)
C5_Degenerate ==
    Done =>
        /\ N = 0 => (outcome = Returned(0, <<>>) /\ DOMAIN evals = {})
        /\ (N = 1 /\ Square(dm)) => outcome = Returned(0, <<0, 0>>)

----------------------------------------------------------------------------
(* What one solve call yields on a matrix when nothing at all is cached: the
   recurrence of visit evaluated afresh at every request. *)

RefRaise(line) == [err |-> line, cost |-> 0, tail |-> <<>>]
RefValue(c, t) == [err |-> 0, cost |-> c, tail |-> t]

RECURSIVE RefVisit(_, _, _), RefLoop(_, _, _, _, _)
RefVisit(m, pos, mask) ==
    IF mask = Pow2(Len(m)) - 1
    THEN IF Len(m[pos + 1]) < 1 THEN RefRaise(20) ELSE RefValue(m[pos + 1][1], <<0>>)
    ELSE RefLoop(m, pos, mask, 0, RefValue(Inf, None))

RefLoop(m, pos, mask, nxt, best) ==
    IF nxt >= Len(m) THEN best
    ELSE IF (mask \div Pow2(nxt)) % 2 = 1 THEN RefLoop(m, pos, mask, nxt + 1, best)
    ELSE IF nxt + 1 > Len(m[pos + 1]) THEN RefRaise(28)
    ELSE IF m[pos + 1][nxt + 1] = Inf THEN RefLoop(m, pos, mask, nxt + 1, best)
    ELSE LET sub == RefVisit(m, nxt, mask + Pow2(nxt))
             total == IF sub.cost = Inf THEN Inf ELSE m[pos + 1][nxt + 1] + sub.cost
         IN  IF sub.err # 0 THEN sub
             ELSE IF total # Inf /\ (best.cost = Inf \/ total < best.cost)
             THEN IF sub.tail = None THEN RefRaise(35)
                  ELSE RefLoop(m, pos, mask, nxt + 1, RefValue(total, <<nxt>> \o sub.tail))
             ELSE RefLoop(m, pos, mask, nxt + 1, best)

Alone(m) ==
    IF Len(m) = 0 THEN Returned(0, <<>>)
    ELSE LET r == RefVisit(m, 0, 1)
         IN  IF r.err = 20 \/ r.err = 28 THEN Raised("IndexError", r.err)
             ELSE IF r.err = 35 THEN Raised("TypeError", 35)
             ELSE IF r.tail = None THEN Raised("TypeError", 39)
             ELSE Returned(r.cost, <<0>> \o r.tail)

(* C6: what a solve call returns depends on that call's matrix only: the memo
   table of a call holds no entry of an earlier call, so whatever calls came
   before, the call ends as a call on the same matrix alone ends, and two
   calls with the same matrix return the same (cost, order). *)
C6_CallDependsOnMatrixOnly ==
    /\ Done => outcome = Alone(dm)
    /\ (pc \in {"running", "finish"} /\ Square(dm)) =>
         \A key \in DOMAIN memo :
            LET r == RefVisit(dm, key[1], key[2])
            IN  memo[key] = [cost |-> r.cost, tail |-> r.tail]

C6_Witness ==
    /\ Done /\ rel = "same size" /\ N = 4 /\ hpc = "idle"
    /\ outcome.kind = "return" /\ outcome = Alone(dm)

(* C7: in a non-final DP state whose minimum total is reached by several
   unvisited successors, the continuation starts with the smallest such node
   index; so the returned order is the lexicographically smallest of the
   minimum-cost tours. *)
C7_TieBreak ==
    (Square(dm) /\ N >= 1) =>
        /\ \A key \in DOMAIN memo :
             (NonFinal(key) /\ memo[key].cost # Inf) =>
                LET best == {nxt \in Candidates(key[1], key[2]) :
                                Total(key[1], key[2], nxt) = memo[key].cost}
                IN  /\ memo[key].tail[1] \in best
                    /\ \A nxt \in best : memo[key].tail[1] <= nxt
        /\ (Done /\ outcome.kind = "return") =>
             /\ outcome.order \in Tours(N)
             /\ Cheapest(dm, outcome.order)
             /\ \A t \in Tours(N) : Cheapest(dm, t) => LexLeq(outcome.order, t)

C7_Witness ==
    /\ Done /\ N = 4 /\ Square(dm) /\ outcome.kind = "return"
    /\ outcome.order = <<0, 1, 2, 3, 0>>
    /\ Cardinality({t \in Tours(N) : Cheapest(dm, t)}) > 1
    /\ \E key \in DOMAIN memo :
         /\ NonFinal(key) /\ memo[key].cost # Inf
         /\ Cardinality({nxt \in Candidates(key[1], key[2]) :
                            Total(key[1], key[2], nxt) = memo[key].cost}) > 1

(* C8: within one solve call the body of visit runs at most once for a
   (pos, visited) pair; a later request for the pair is answered from the
   memo table, whose entry never changes during the call; at most n * 2^n
   states are evaluated. *)
C8_MemoKept ==
    pc = "running" =>
        \A key \in DOMAIN memo : key \in DOMAIN memo' /\ memo'[key] = memo[key]

C8_AtMostOnce ==
    /\ [](/\ \A key \in DOMAIN evals : evals[key] <= 1
          /\ Cardinality(DOMAIN evals) <= N * Pow2(N)
          /\ pc \in {"finish", "done"} /\ N >= 1 /\ outcome.kind # "IndexError"
               => DOMAIN evals = DOMAIN memo)
    /\ [][C8_MemoKept]_vars

C8_Witness ==
    /\ Done /\ N = 4 /\ outcome.kind = "return"
    /\ hits = 3
    /\ Cardinality(DOMAIN evals) = 13
    /\ evals[<<3, 15>>] = 1

(* C9: on a well-formed matrix whose off-diagonal entries may be infinite no
   evaluation of visit raises an error; a non-final state returns
   (infinity, no continuation) exactly when no unvisited nxt with finite
   cost[pos][nxt] has a finite remaining cost, and a finite cost with a
   continuation otherwise; a sub-result of infinite cost is never
   concatenated into a continuation. *)
Infeasible == [cost |-> Inf, tail |-> None]

\* the continuation t chosen in state (pos, mask) extends a cached finite sub-result
ExtendsFinite(pos, mask, t) ==
    /\ t[1] \in Candidates(pos, mask)
    /\ Child(mask, t[1]) \in DOMAIN memo
    /\ memo[Child(mask, t[1])].cost # Inf
    /\ memo[Child(mask, t[1])].tail = Tail(t)

C9_InBandInfeasibility ==
    (WellFormed(dm) /\ N >= 1) =>
        /\ outcome.line \notin {20, 28, 35}
        /\ \A key \in DOMAIN memo :
             NonFinal(key) =>
                /\ \A nxt \in Candidates(key[1], key[2]) :
                      Child(key[2], nxt) \in DOMAIN memo
                /\ memo[key] = Infeasible <=>
                      \A nxt \in Candidates(key[1], key[2]) :
                          memo[Child(key[2], nxt)].cost = Inf
                /\ memo[key] # Infeasible =>
                      /\ memo[key].cost # Inf
                      /\ memo[key].tail # None
                      /\ ExtendsFinite(key[1], key[2], memo[key].tail)
        /\ \A i \in 1 .. Len(stack) :
             IF stack[i].best_tail = None
             THEN stack[i].best_cost = Inf
             ELSE /\ stack[i].best_cost # Inf
                  /\ ExtendsFinite(stack[i].pos, stack[i].mask, stack[i].best_tail)

C9_Witness ==
    /\ Done /\ WellFormed(dm) /\ N = 4 /\ outcome.kind = "return"
    /\ \E key \in DOMAIN memo : NonFinal(key) /\ memo[key] = Infeasible
    /\ \E key \in DOMAIN memo :
         /\ NonFinal(key) /\ memo[key] # Infeasible
         /\ \E nxt \in Candidates(key[1], key[2]) :
               memo[Child(key[2], nxt)].cost = Inf

(* C10: index() invokes solve_tsp_held_karp on a POST only after
   parse_coordinates has succeeded with 2 to 20 pairs and every entry of the
   built matrix has been found finite; with an infinite entry it reports an
   error and redirects, and the solver is never invoked. *)
Unreachable == "Some locations are unreachable by road. Please adjust your inputs."

C10_SolverBehindChecks ==
    /\ hpc \in {"parsed", "built"} => pc = "idle"
    /\ (hpc \in {"solving", "responded"} /\ pc # "idle") =>
         /\ Len(coords) >= 2 /\ Len(coords) <= MAX_POINTS
         /\ Len(dist) = Len(coords)
         /\ dm = dist
         /\ Square(dist) /\ AllFinite(dist)
    /\ (hpc = "responded" /\ ~AllFinite(dist)) =>
         /\ pc = "idle"
         /\ response = Redirect(Unreachable)

C10_Witness ==
    /\ hpc = "responded" /\ response.page = "results.html"
    /\ Len(coords) = 3 /\ Done /\ dm = dist /\ AllFinite(dist)
    /\ response.order = <<0, 2, 1, 0>>

====
